---- MODULE Spec2Model ----
(***************************************************************************)
(* Model of the turn agent of src/algo_strategy.py (class AlgoStrategy).   *)
(*                                                                         *)
(* The agent's own fields (batch_ping_num, sent_pings_last_round,          *)
(* enemy_health_before_attack) and the per-turn control flow are taken     *)
(* from the source.  The game-state object the agent talks to (gamelib)    *)
(* is not part of src/: its queries and commands are modelled after the    *)
(* collaborator contract of the specification (sections 3, 4.1 and 6),     *)
(* and every call the agent makes on it is recorded in `log`.              *)
(***************************************************************************)
EXTENDS Integers, Sequences, FiniteSets, TLC

(***************************************************************************)
(* Program constants.                                                      *)
(***************************************************************************)
BATCH_PINGS_NUM_CAP == 24

InitialBatchPingNum == 10

InitialEnemyHealth == 30

BatchIncrement == 4

(* Unit-type identifiers, resolved from the configuration by index. *)
FILTER == "FILTER"

ENCRYPTOR == "ENCRYPTOR"

DESTRUCTOR == "DESTRUCTOR"

PING == "PING"

EMP == "EMP"

SCRAMBLER == "SCRAMBLER"

(* The static placement plan and the frontline coordinates. *)
funnel_walls ==
  << <<0, 13>>, <<1, 13>>, <<2, 13>>, <<3, 13>>, <<24, 13>>, <<25, 13>>,
     <<26, 13>>, <<27, 13>>, <<4, 12>>, <<23, 12>>, <<5, 11>>, <<22, 11>>,
     <<6, 10>>, <<21, 10>>, <<7, 9>>, <<20, 9>>, <<8, 8>>, <<19, 8>>,
     <<9, 7>>, <<10, 7>>, <<11, 7>>, <<12, 7>>, <<15, 7>>, <<16, 7>>,
     <<17, 7>>, <<18, 7>> >>

basic_destructors ==
  << <<12, 6>>, <<15, 6>>, <<12, 5>>, <<15, 5>>, <<12, 4>>, <<15, 4>>,
     <<3, 12>>, <<24, 12>> >>

bottom_encryptors ==
  << <<12, 3>>, <<15, 3>>, <<12, 2>>, <<15, 2>> >>

wing_destructors ==
  << <<5, 10>>, <<22, 10>>, <<7, 8>>, <<20, 8>>, <<9, 6>>, <<18, 6>>,
     <<1, 12>>, <<26, 12>> >>

scramblers ==
  << <<13, 0>>, <<14, 0>> >>

pings ==
  << <<13, 0>>, <<14, 0>> >>

(***************************************************************************)
(* Bounds of the model.                                                    *)
(***************************************************************************)
(* No further turn is delivered once the threshold has reached this value. *)
MaxBatchPingNum == 30

(* Largest deployable resource (bits) a snapshot carries. *)
MaxBits == 26

(* Largest structural resource (cores) a snapshot carries. *)
MaxCores == 4

(* The opponent's health in a snapshot lies in                             *)
(* InitialEnemyHealth - MaxDamage .. InitialEnemyHealth.                   *)
MaxDamage == 1

(***************************************************************************)
(* Helpers.                                                                *)
(***************************************************************************)
Range(s) ==
  {s[i] : i \in 1..Len(s)}

min(a, b) ==
  IF a <= b THEN a ELSE b

PlanSeq ==
  funnel_walls \o basic_destructors \o bottom_encryptors \o wing_destructors

PlanCells ==
  Range(PlanSeq)

Frontline ==
  Range(scramblers) \cup Range(pings)

Structures ==
  {FILTER, ENCRYPTOR, DESTRUCTOR}

(***************************************************************************)
(* The game-state collaborator (gamelib.GameState).                        *)
(*                                                                         *)
(* A game state is a record                                                *)
(*   occupied     : cells holding a structure                              *)
(*   blocked      : frontline cells the engine refuses for mobile units    *)
(*   cores, bits  : the two resource pools                                 *)
(*   enemy_health : the opponent's health                                  *)
(***************************************************************************)
(* Price of one unit, charged to cores (structures) or bits (mobile units).*)
UnitCost ==
  [u \in {FILTER, ENCRYPTOR, DESTRUCTOR, PING, EMP, SCRAMBLER} |->
     CASE u = FILTER -> 1
       [] u = ENCRYPTOR -> 4
       [] u = DESTRUCTOR -> 3
       [] u = PING -> 1
       [] u = EMP -> 3
       [] u = SCRAMBLER -> 1]

get_resource(gs, u) ==
  IF u \in Structures THEN gs.cores ELSE gs.bits

(* Legality check: the cell is free, the engine accepts it, and the pool   *)
(* affords the full quantity.                                              *)
can_spawn(gs, u, loc, num) ==
  /\ loc \notin gs.occupied
  /\ loc \notin gs.blocked
  /\ UnitCost[u] * num <= get_resource(gs, u)

(* Placement command: a legal placement is enqueued, paid for, and (for a  *)
(* structure) occupies its cell; an illegal one changes nothing.           *)
attempt_spawn(gs, u, loc, num) ==
  IF ~can_spawn(gs, u, loc, num) THEN gs
  ELSE IF u \in Structures
       THEN [gs EXCEPT !.occupied = @ \cup {loc},
                       !.cores = @ - UnitCost[u] * num]
       ELSE [gs EXCEPT !.bits = @ - UnitCost[u] * num]

(* One recorded call on the game state. *)
Call(op, u, loc, num, result) ==
  [op |-> op, unit |-> u, loc |-> loc, num |-> num, result |-> result]

LastOfEachRole ==
  {funnel_walls[Len(funnel_walls)],
   basic_destructors[Len(basic_destructors)],
   bottom_encryptors[Len(bottom_encryptors)],
   wing_destructors[Len(wing_destructors)]}

(* Boards a snapshot may show: nothing built, everything built, everything *)
(* but one cell of each role, everything but the boosters, everything but  *)
(* the wings.                                                              *)
BoardChoices ==
  {{}, PlanCells, PlanCells \ LastOfEachRole}
    \cup {PlanCells \ Range(g) : g \in {bottom_encryptors, wing_destructors}}

Snapshots ==
  [occupied : BoardChoices,
   blocked : SUBSET Frontline,
   cores : 0..MaxCores,
   bits : 0..MaxBits,
   enemy_health : (InitialEnemyHealth - MaxDamage)..InitialEnemyHealth]

(***************************************************************************)
(* State.                                                                  *)
(***************************************************************************)
VARIABLES
  pc,                          \* position of the agent in its turn
  batch_ping_num,              \* self.batch_ping_num
  sent_pings_last_round,       \* self.sent_pings_last_round
  enemy_health_before_attack,  \* self.enemy_health_before_attack
  turn_state,                  \* the snapshot delivered to on_turn
  game_state,                  \* the GameState built from it, as commanded so far
  log                          \* calls made on game_state in this turn

vars ==
  <<pc, batch_ping_num, sent_pings_last_round, enemy_health_before_attack,
    turn_state, game_state, log>>

agent ==
  <<batch_ping_num, sent_pings_last_round, enemy_health_before_attack>>

EmptySnapshot ==
  [occupied |-> {}, blocked |-> {}, cores |-> 0, bits |-> 0,
   enemy_health |-> InitialEnemyHealth]

(* After construction: on_game_start has not run yet. *)
Init ==
  /\ pc = "constructed"
  /\ batch_ping_num = 0
  /\ sent_pings_last_round = FALSE
  /\ enemy_health_before_attack = 0
  /\ turn_state = EmptySnapshot
  /\ game_state = EmptySnapshot
  /\ log = << >>

(***************************************************************************)
(* Operations.                                                             *)
(***************************************************************************)
on_game_start ==
  /\ pc = "constructed"
  /\ batch_ping_num' = InitialBatchPingNum
  /\ sent_pings_last_round' = FALSE
  /\ enemy_health_before_attack' = InitialEnemyHealth
  /\ pc' = "wait"
  /\ UNCHANGED <<turn_state, game_state, log>>

(* The engine delivers a snapshot; on_turn wraps it in a fresh GameState   *)
(* and enters battle_strategy.                                             *)
on_turn ==
  /\ pc = "wait"
  /\ batch_ping_num < MaxBatchPingNum
  /\ \E s \in Snapshots :
       /\ turn_state' = s
       /\ game_state' = s
  /\ log' = << >>
  /\ pc' = "check_last_attack"
  /\ UNCHANGED agent

NewBatchPingNumStrict(flag, health, baseline, n) ==
  IF flag /\ health > baseline THEN n + BatchIncrement ELSE n

NewBatchPingNum(flag, health, baseline, n) ==
  IF flag
  THEN IF health >= baseline THEN n + BatchIncrement ELSE n
  ELSE n

FlagAfterCheckKept(flag) ==
  flag

FlagAfterCheck(flag) ==
  FALSE

check_last_attack ==
  /\ pc = "check_last_attack"
  /\ batch_ping_num' =
       NewBatchPingNum(sent_pings_last_round, game_state.enemy_health,
                       enemy_health_before_attack, batch_ping_num)
  /\ sent_pings_last_round' = FlagAfterCheck(sent_pings_last_round)
  /\ pc' = "build_base"
  /\ UNCHANGED <<enemy_health_before_attack, turn_state, game_state, log>>

(* The guarded placement every loop of the agent repeats:                  *)
(*   if game_state.can_spawn(u, loc): game_state.attempt_spawn(u, loc)     *)
(* st is the pair of game state and call log.                              *)
SpawnNegated(st, u, loc) ==
  LET ok == can_spawn(st.gs, u, loc, 1)
      checked == Append(st.log, Call("can_spawn", u, loc, 1, ok))
  IN IF ~ok
     THEN [gs |-> attempt_spawn(st.gs, u, loc, 1),
           log |-> Append(checked, Call("attempt_spawn", u, loc, 1, TRUE))]
     ELSE [gs |-> st.gs, log |-> checked]

SpawnUnchecked(st, u, loc) ==
  LET ok == can_spawn(st.gs, u, loc, 1)
  IN [gs |-> attempt_spawn(st.gs, u, loc, 1),
      log |-> st.log \o << Call("can_spawn", u, loc, 1, ok),
                           Call("attempt_spawn", u, loc, 1, TRUE) >>]

SpawnIfLegal(st, u, loc) ==
  LET ok == can_spawn(st.gs, u, loc, 1)
      checked == Append(st.log, Call("can_spawn", u, loc, 1, ok))
  IN IF ok
     THEN [gs |-> attempt_spawn(st.gs, u, loc, 1),
           log |-> Append(checked, Call("attempt_spawn", u, loc, 1, TRUE))]
     ELSE [gs |-> st.gs, log |-> checked]

(* for loc in locs: the guarded placement, cell by cell from index i on.    *)
(* Every guarded placement logs at least its check, so the inner test is   *)
(* always true; it only makes each step be evaluated before the next.      *)
RECURSIVE ForEach(_, _, _, _)
ForEach(st, u, locs, i) ==
  IF i > Len(locs) THEN st
  ELSE LET nxt == SpawnIfLegal(st, u, locs[i])
       IN IF Len(nxt.log) > Len(st.log) THEN ForEach(nxt, u, locs, i + 1)
          ELSE nxt

BuildBaseWingsFirst(st) ==
  LET s1 == ForEach(st, FILTER, funnel_walls, 1)
      s2 == ForEach(s1, DESTRUCTOR, wing_destructors, 1)
      s3 == ForEach(s2, DESTRUCTOR, basic_destructors, 1)
  IN ForEach(s3, ENCRYPTOR, bottom_encryptors, 1)

BuildBase(st) ==
  LET s1 == ForEach(st, FILTER, funnel_walls, 1)
      s2 == ForEach(s1, DESTRUCTOR, basic_destructors, 1)
      s3 == ForEach(s2, ENCRYPTOR, bottom_encryptors, 1)
  IN ForEach(s3, DESTRUCTOR, wing_destructors, 1)

build_base ==
  /\ pc = "build_base"
  /\ LET st == BuildBase([gs |-> game_state, log |-> log])
     IN /\ game_state' = st.gs
        /\ log' = st.log
  /\ pc' = "deploy_attackers"
  /\ UNCHANGED <<agent, turn_state>>

CurBatchNumUncapped(n) ==
  n

CurBatchNum(n) ==
  min(n, BATCH_PINGS_NUM_CAP)

EnoughStrict(resource, cur_batch_num) ==
  resource > cur_batch_num

EnoughOffByOne(resource, cur_batch_num) ==
  resource + 1 >= cur_batch_num

Enough(resource, cur_batch_num) ==
  resource >= cur_batch_num

(* The resource the comparison reads: the pool as the disruptor            *)
(* placements left it (after), not as the turn found it (before).          *)
BitsComparedBefore(before, after) ==
  get_resource(before, PING)

BitsCompared(before, after) ==
  get_resource(after, PING)

deploy_attackers ==
  /\ pc = "deploy_attackers"
  /\ LET s1 == ForEach([gs |-> game_state, log |-> log], SCRAMBLER,
                       scramblers, 1)
         cur_batch_num == CurBatchNum(batch_ping_num)
         resource == BitsCompared(game_state, s1.gs)
         read == Append(s1.log, Call("get_resource", "BITS", << >>,
                                     resource, TRUE))
     IN IF Enough(resource, cur_batch_num)
        THEN /\ enemy_health_before_attack' = s1.gs.enemy_health
             /\ sent_pings_last_round' = TRUE
             /\ \E r \in 0..1 :
                  LET deploy_loc == pings[r + 1]
                      ok == can_spawn(s1.gs, PING, deploy_loc, cur_batch_num)
                      checked == Append(read, Call("can_spawn", PING,
                                        deploy_loc, cur_batch_num, ok))
                  IN IF ok
                     THEN /\ game_state' = attempt_spawn(s1.gs, PING,
                                             deploy_loc, cur_batch_num)
                          /\ log' = Append(checked, Call("attempt_spawn",
                                      PING, deploy_loc, cur_batch_num, TRUE))
                     ELSE /\ game_state' = s1.gs
                          /\ log' = checked
        ELSE /\ game_state' = s1.gs
             /\ log' = read
             /\ UNCHANGED <<enemy_health_before_attack,
                            sent_pings_last_round>>
  /\ pc' = "submit_turn"
  /\ UNCHANGED <<batch_ping_num, turn_state>>

submit_turn ==
  /\ pc = "submit_turn"
  /\ log' = Append(log, Call("submit_turn", "", << >>, 0, TRUE))
  /\ pc' = "submitted"
  /\ UNCHANGED <<agent, turn_state, game_state>>

(* on_turn returns: its GameState goes out of scope, the fields stay. *)
on_turn_return ==
  /\ pc = "submitted"
  /\ turn_state' = EmptySnapshot
  /\ game_state' = EmptySnapshot
  /\ log' = << >>
  /\ pc' = "wait"
  /\ UNCHANGED agent

Next ==
  \/ on_game_start
  \/ on_turn
  \/ check_last_attack
  \/ build_base
  \/ deploy_attackers
  \/ submit_turn
  \/ on_turn_return

Spec ==
  Init /\ [][Next]_vars

(***************************************************************************)
(* Reading the call log.                                                   *)
(***************************************************************************)
Attempts(l) ==
  {i \in DOMAIN l : l[i].op = "attempt_spawn"}

Checks(l) ==
  {i \in DOMAIN l : l[i].op = "can_spawn"}

AttemptsOf(l, u) ==
  {i \in Attempts(l) : l[i].unit = u}

HasRead(l) ==
  \E i \in DOMAIN l : l[i].op = "get_resource"

(* The amount get_resource returned in this turn. *)
ReadBits(l) ==
  LET i == CHOOSE j \in DOMAIN l : l[j].op = "get_resource" IN l[i].num

(* The capped threshold, min(threshold, 24). *)
Capped ==
  IF batch_ping_num <= 24 THEN batch_ping_num ELSE 24

AfterDeploy ==
  pc \in {"submit_turn", "submitted"}

(* Place of a call in the fixed order of a turn: the plan cells in plan    *)
(* order, then the two disruptor cells, then the batch, then submission.     *)
IndexIn(seq, x) ==
  CHOOSE i \in 1..Len(seq) : seq[i] = x

PlanIndex ==
  [c \in PlanCells |-> IndexIn(PlanSeq, c)]

RoleUnit(k) ==
  IF k <= Len(funnel_walls) THEN FILTER
  ELSE IF k <= Len(funnel_walls) + Len(basic_destructors) THEN DESTRUCTOR
  ELSE IF k <= Len(funnel_walls) + Len(basic_destructors)
                + Len(bottom_encryptors) THEN ENCRYPTOR
  ELSE DESTRUCTOR

Place(c) ==
  CASE c.op = "submit_turn" -> Len(PlanSeq) + 5
    [] c.op = "get_resource" -> Len(PlanSeq) + 3
    [] c.unit = PING -> Len(PlanSeq) + 4
    [] c.unit = SCRAMBLER -> Len(PlanSeq) + IndexIn(scramblers, c.loc)
    [] OTHER -> PlanIndex[c.loc]

(***************************************************************************)
(* C1: the attack-outcome check raises the threshold by exactly 4 when the *)
(* issued-flag is true on entry and the opponent's health is at least the  *)
(* baseline; with the flag true and the health strictly below the          *)
(* baseline, or with the flag false, it leaves the threshold unchanged.    *)
(***************************************************************************)
C1_ThresholdRule ==
  [][pc = "check_last_attack" =>
       /\ (sent_pings_last_round
             /\ game_state.enemy_health >= enemy_health_before_attack)
            => batch_ping_num' = batch_ping_num + 4
       /\ (sent_pings_last_round
             /\ game_state.enemy_health < enemy_health_before_attack)
            => batch_ping_num' = batch_ping_num
       /\ ~sent_pings_last_round => batch_ping_num' = batch_ping_num]_vars

(* The check has just raised the threshold on an unchanged health. *)
C1_Witness ==
  /\ pc = "build_base"
  /\ batch_ping_num = InitialBatchPingNum + 4
  /\ game_state.enemy_health = enemy_health_before_attack

(***************************************************************************)
(* C2: the quantity of every batch legality check and batch deployment     *)
(* command is min(threshold, 24), never more than 24, and the comparison   *)
(* with the resource uses the same capped quantity, however far the        *)
(* threshold has grown.                                                    *)
(***************************************************************************)
C2_QuantityCapped ==
  /\ \A i \in DOMAIN log :
       log[i].unit = PING => /\ log[i].num = Capped
                             /\ log[i].num <= 24
  /\ (AfterDeploy /\ HasRead(log)) =>
       (\E i \in Checks(log) : log[i].unit = PING) = (ReadBits(log) >= Capped)

(* A batch is deployed while the threshold is past the cap. *)
C2_Witness ==
  /\ batch_ping_num > 24
  /\ AttemptsOf(log, PING) # {}

(***************************************************************************)
(* C3 as claimed: whenever the resource compared meets the capped          *)
(* threshold, the turn issues a deployment command for the capped quantity *)
(* of the fast unit at [13,0] or [14,0], records the opponent's health as  *)
(* the baseline and ends with the issued-flag true.                        *)
(***************************************************************************)
C3_Original ==
  (pc = "submitted" /\ ReadBits(log) >= Capped) =>
    /\ \E i \in AttemptsOf(log, PING) :
         /\ log[i].num = Capped
         /\ log[i].loc \in {<<13, 0>>, <<14, 0>>}
    /\ enemy_health_before_attack = game_state.enemy_health
    /\ sent_pings_last_round

(***************************************************************************)
(* C3 as amended: whenever the resource compared meets the capped          *)
(* threshold, the turn records the opponent's health as the baseline, ends *)
(* with the issued-flag true, and checks the legality of the capped        *)
(* quantity of the fast unit at [13,0] or [14,0]; the deployment command   *)
(* for that quantity and coordinate is issued exactly when that check      *)
(* returned true.                                                          *)
(***************************************************************************)
C3_Amended ==
  (pc = "submitted" /\ ReadBits(log) >= Capped) =>
    /\ enemy_health_before_attack = game_state.enemy_health
    /\ sent_pings_last_round
    /\ \E i \in Checks(log) :
         /\ log[i].unit = PING
         /\ log[i].num = Capped
         /\ log[i].loc \in {<<13, 0>>, <<14, 0>>}
         /\ \A j \in Checks(log) : log[j].unit = PING => j = i
         /\ log[i].result =>
              /\ AttemptsOf(log, PING) = {i + 1}
              /\ log[i + 1].num = Capped
              /\ log[i + 1].loc = log[i].loc
         /\ ~log[i].result => AttemptsOf(log, PING) = {}

(* A turn whose resource equals the capped threshold deploys the batch. *)
C3_Witness ==
  /\ pc = "submitted"
  /\ ReadBits(log) = Capped
  /\ AttemptsOf(log, PING) # {}
  /\ sent_pings_last_round

(***************************************************************************)
(* C4: whenever the resource compared is strictly below the capped         *)
(* threshold, the turn issues no batch deployment command and ends with    *)
(* the issued-flag false; and within a turn the baseline is overwritten    *)
(* only by a batch step whose resource met the capped threshold.           *)
(***************************************************************************)
C4_NoDeployBelowThreshold ==
  /\ []((AfterDeploy /\ ReadBits(log) < Capped) =>
          /\ \A i \in DOMAIN log : log[i].unit # PING
          /\ ~sent_pings_last_round)
  /\ [][(pc # "constructed"
           /\ enemy_health_before_attack' # enemy_health_before_attack) =>
          /\ pc = "deploy_attackers"
          /\ ReadBits(log') >= Capped]_vars

(* A turn ends one unit short of the capped threshold. *)
C4_Witness ==
  /\ pc = "submitted"
  /\ ReadBits(log) = Capped - 1
  /\ ~sent_pings_last_round

(***************************************************************************)
(* C5: when a turn ends (and so when the next one starts) the issued-flag  *)
(* is true if and only if a batch deployment command was issued during     *)
(* that turn, whatever the legality check returned.                        *)
(***************************************************************************)
C5_FlagIffIssued ==
  pc = "submitted" =>
    (sent_pings_last_round = (AttemptsOf(log, PING) # {}))

(***************************************************************************)
(* C6: the defense-maintenance pass is idempotent: on a board where every  *)
(* plan coordinate is occupied it issues no placement command, and run     *)
(* again right after a pass it issues no further command.                  *)
(***************************************************************************)
C6_BuildBaseIdempotent ==
  /\ [][(pc = "build_base" /\ PlanCells \subseteq game_state.occupied) =>
          Attempts(log') = {}]_vars
  /\ [](pc = "deploy_attackers" =>
          Attempts(BuildBase([gs |-> game_state, log |-> << >>]).log) = {})

(* A pass has placed some structures and left others unbuilt. *)
C6_Witness ==
  /\ pc = "deploy_attackers"
  /\ Attempts(log) # {}
  /\ ~(PlanCells \subseteq game_state.occupied)

(***************************************************************************)
(* C7: every command is immediately preceded by a legality check of the    *)
(* same unit type, coordinate and quantity that returned true; a check     *)
(* that returned false is followed by no command, no placement is checked  *)
(* twice in a turn, and a submitted turn has checked every plan cell and   *)
(* both disruptor cells, read the resource and ended in the submission.    *)
(***************************************************************************)
C7_GuardedCommands ==
  /\ \A i \in Attempts(log) :
       /\ i > 1
       /\ log[i - 1].op = "can_spawn"
       /\ log[i - 1].result
       /\ log[i - 1].unit = log[i].unit
       /\ log[i - 1].loc = log[i].loc
       /\ log[i - 1].num = log[i].num
  /\ \A i \in Checks(log) :
       (~log[i].result /\ i < Len(log)) => log[i + 1].op # "attempt_spawn"
  /\ Cardinality({<<log[i].unit, log[i].loc>> : i \in Checks(log)})
       = Cardinality(Checks(log))
  /\ pc = "submitted" =>
       /\ log[Len(log)].op = "submit_turn"
       /\ {log[i].loc : i \in {j \in Checks(log) :
                                  log[j].unit \in Structures}} = PlanCells
       /\ {log[i].loc : i \in {j \in Checks(log) :
                                  log[j].unit = SCRAMBLER}} = Range(scramblers)
       /\ HasRead(log)

(* A submitted turn in which some checks failed and some commands went out.*)
C7_Witness ==
  /\ pc = "submitted"
  /\ \E i \in Checks(log) : ~log[i].result
  /\ Attempts(log) # {}

(***************************************************************************)
(* C8: the steps of a turn run in one fixed order: attack-outcome check,   *)
(* then the plan in the order funnel, core blockers, boosters, wings, then *)
(* the disruptors, then the batch, then exactly one submission; nothing is *)
(* commanded after the submission and no plan coordinate is commanded      *)
(* twice in a turn.                                                        *)
(***************************************************************************)
C8_FixedOrder ==
  /\ [](/\ \A i \in 1..(Len(log) - 1) :
             /\ Place(log[i]) <= Place(log[i + 1])
             /\ Place(log[i]) = Place(log[i + 1]) =>
                  /\ log[i].op = "can_spawn"
                  /\ log[i + 1].op = "attempt_spawn"
        /\ \A i \in Attempts(log) :
             Place(log[i]) <= Len(PlanSeq) =>
               log[i].unit = RoleUnit(Place(log[i]))
        /\ pc = "check_last_attack" => log = << >>
        /\ (\E i \in DOMAIN log : log[i].op = "submit_turn")
             = (pc = "submitted"))
  /\ [][/\ pc = "check_last_attack" => pc' = "build_base"
        /\ pc = "build_base" => pc' = "deploy_attackers"
        /\ pc = "deploy_attackers" => pc' = "submit_turn"
        /\ pc = "submit_turn" => pc' = "submitted"
        /\ Len(log') < Len(log) => pc = "submitted"]_vars

(* A submitted turn that placed units of two roles and deployed a batch. *)
C8_Witness ==
  /\ pc = "submitted"
  /\ AttemptsOf(log, FILTER) # {}
  /\ AttemptsOf(log, DESTRUCTOR) # {}
  /\ AttemptsOf(log, PING) # {}

(***************************************************************************)
(* C9: the attack-outcome check always leaves the issued-flag false; the   *)
(* threshold changes only in an attack-outcome check that found the flag   *)
(* true, and the flag becomes true only in the batch-attack step, so each  *)
(* setting of the flag raises the threshold at most once.                  *)
(***************************************************************************)
C9_OneRaisePerFlag ==
  /\ [][pc = "check_last_attack" => ~sent_pings_last_round']_vars
  /\ [][(pc # "constructed" /\ batch_ping_num' # batch_ping_num) =>
          /\ pc = "check_last_attack"
          /\ sent_pings_last_round
          /\ batch_ping_num' = batch_ping_num + 4]_vars
  /\ [][(~sent_pings_last_round /\ sent_pings_last_round') =>
          pc = "deploy_attackers"]_vars

(* The threshold has been raised twice and the flag is clear again. *)
C9_Witness ==
  /\ pc = "build_base"
  /\ batch_ping_num = InitialBatchPingNum + 8
  /\ ~sent_pings_last_round

(***************************************************************************)
(* C10: the resource compared with the capped threshold is the one left by *)
(* the disruptor placements of the same turn: a turn that starts with the  *)
(* resource equal to the capped threshold and places a disruptor issues no *)
(* batch deployment and leaves the issued-flag false.                      *)
(***************************************************************************)
C10_ReadAfterDisruptors ==
  (AfterDeploy /\ HasRead(log)) =>
    /\ ReadBits(log) = turn_state.bits
         - UnitCost[SCRAMBLER] * Cardinality(AttemptsOf(log, SCRAMBLER))
    /\ (turn_state.bits = Capped /\ AttemptsOf(log, SCRAMBLER) # {}) =>
         /\ AttemptsOf(log, PING) = {}
         /\ ~sent_pings_last_round

(* A turn started at exactly the capped threshold and placed a disruptor. *)
C10_Witness ==
  /\ pc = "submitted"
  /\ turn_state.bits = Capped
  /\ AttemptsOf(log, SCRAMBLER) # {}

====
